---------------------------- MODULE Spec2Model ----------------------------
(***************************************************************************)
(* A model of the tool-calling agent loop of langchain-ollama-mcp.py:      *)
(* extract_tool_calls, parse_tool_call, execute_tool_call, run_agent_loop. *)
(*                                                                         *)
(* Python values are tagged tuples, so that values of different Python     *)
(* types can be compared:                                                  *)
(*   <<"none">>  <<"str", chars>>  <<"int", n>>  <<"dict", pairs>>         *)
(*   <<"list", items>>  <<"obj", pairs>> (an object with attributes)       *)
(* A str is a sequence of character tokens.  A dict is a sequence of       *)
(* <<key, value>> pairs whose keys are sequences of character tokens.      *)
(***************************************************************************)
EXTENDS Integers, Sequences, FiniteSets, TLC

VARIABLES
    pc,             \* position of run_agent_loop
    iteration,      \* the loop counter
    max_iterations, \* the argument max_iterations
    messages,       \* the list `messages`
    tool_calls,     \* the list extract_tool_calls returned in this iteration
    idx,            \* enumerate index of the for loop over tool_calls
    cur,            \* the (tool_name, tool_args, tool_id) of the call in flight
    final,          \* what the final-answer branch printed
    warned,         \* whether the max-iterations warning was printed
    rounds,         \* history: number of agent.ainvoke calls made
    invocations,    \* history: number of session.call_tool calls made
    sent,           \* history: the messages handed to the latest ainvoke
    trace,          \* history: what each ainvoke returned
    applog,         \* history: every tool message appended, with its request
    fault,          \* history: where the exception that ended the run arose
    ein,            \* extract_tool_calls alone: its argument
    eout,           \* extract_tool_calls alone: its outcome
    epc,            \* extract_tool_calls alone: "call" or "returned"
    iin,            \* execute_tool_call alone: its arguments and the session
    iout,           \* execute_tool_call alone: its outcome
    ipc,            \* execute_tool_call alone: "call" or "returned"
    loaded_data,    \* server.py: the global _loaded_data
    slog,           \* server.py, history: the tool calls served so far
    spc             \* server.py: "serving", or "idle" when it is not run

loopvars == <<pc, iteration, max_iterations, messages, tool_calls, idx, cur,
              final, warned, rounds, invocations, sent, trace, applog, fault>>

extractvars == <<ein, eout, epc>>

invokevars == <<iin, iout, ipc>>

servervars == <<loaded_data, slog, spc>>

vars == <<loopvars, extractvars, invokevars, servervars>>

-----------------------------------------------------------------------------
(* Bounds of the model *)

\* the largest max_iterations a run is started with
MaxIter == 2

\* the longest native tool-call list handed to extract_tool_calls
MaxCalls == 2

\* the largest number of fenced blocks in a text handed to extract_tool_calls
MaxBlocks == 3

\* the largest number of tool calls the server is sent
MaxServerCalls == 3

-----------------------------------------------------------------------------
(* Python values *)

None == <<"none">>

Str(chars) == <<"str", chars>>

Dict(pairs) == <<"dict", pairs>>

EmptyStr == Str(<<>>)

EmptyDict == Dict(<<>>)

\* bool(v): None, "", 0, {} and [] are falsy
Truthy(v) ==
    CASE v[1] = "none" -> FALSE
      [] v[1] = "int"  -> v[2] # 0
      [] OTHER         -> v[2] # <<>>

RECURSIVE Lookup(_, _, _)
\* the value of the last pair of `pairs` with key k, or default
Lookup(pairs, k, default) ==
    IF pairs = <<>> THEN default
    ELSE LET n == Len(pairs)
         IN IF pairs[n][1] = k THEN pairs[n][2]
            ELSE Lookup(SubSeq(pairs, 1, n - 1), k, default)

\* d.get(k, default) on a dict, getattr(o, k, default) on an object
Get(d, k, default) == Lookup(d[2], <<k>>, default)

Digits == <<"0", "1", "2", "3", "4", "5", "6", "7", "8", "9">>

RECURSIVE IntChars(_)
\* str(n) for n >= 0
IntChars(n) ==
    IF n < 10 THEN <<Digits[n + 1]>>
    ELSE IntChars(n \div 10) \o <<Digits[(n % 10) + 1]>>

\* what an f-string puts for {v}
Format(v) ==
    CASE v[1] = "str"  -> v[2]
      [] v[1] = "int"  -> IntChars(v[2])
      [] v[1] = "none" -> <<"None">>

-----------------------------------------------------------------------------
(* Messages *)

HumanMessage(content) ==
    [type |-> "human", content |-> content, tool_calls |-> <<>>,
     tool_call_id |-> None, name |-> None]

AIMessage(content, tcs) ==
    [type |-> "ai", content |-> content, tool_calls |-> tcs,
     tool_call_id |-> None, name |-> None]

ToolMessage(content, tool_call_id, name) ==
    [type |-> "tool", content |-> content, tool_calls |-> <<>>,
     tool_call_id |-> tool_call_id, name |-> name]

ToolCall(name, args, id) == [name |-> name, args |-> args, id |-> id]

-----------------------------------------------------------------------------
(* Text: a str is a sequence of character tokens.  Fence stands for three   *)
(* backquotes in a row, Quote for a double quote; "json", "name", "args", ... are    *)
(* words; " " and "nl" are whitespace.  Deep stands for a run of opening     *)
(* brackets longer than the interpreter's recursion limit.                 *)

Fence == "fence"

Quote == "\""

Deep == "deep"

IsSpace(c) == c \in {" ", "nl"}

RECURSIVE SkipSpace(_, _)
\* the first position >= i of s that holds no whitespace (Len(s)+1 if none)
SkipSpace(s, i) ==
    IF i <= Len(s) /\ IsSpace(s[i]) THEN SkipSpace(s, i + 1) ELSE i

RECURSIVE SkipSpaceBack(_, _)
\* the last position <= i of s that holds no whitespace (0 if none)
SkipSpaceBack(s, i) ==
    IF i >= 1 /\ IsSpace(s[i]) THEN SkipSpaceBack(s, i - 1) ELSE i

\* s.strip()
Strip(s) == SubSeq(s, SkipSpace(s, 1), SkipSpaceBack(s, Len(s)))

\* w in s, for a word w
Contains(s, w) == \E i \in 1..Len(s) : s[i] = w

-----------------------------------------------------------------------------
(* json.loads: a parser of the JSON grammar over character tokens.  A parse *)
(* step returns [ok, v, next, exc]: the value and the position after it, or *)
(* ok = FALSE and the exception json.loads raises: JSONDecodeError where    *)
(* the text leaves the grammar, RecursionError where the scanner nests      *)
(* deeper than the recursion limit.                                         *)

Fail == [ok |-> FALSE, v |-> None, next |-> 0, exc |-> "JSONDecodeError"]

TooDeep == [ok |-> FALSE, v |-> None, next |-> 0, exc |-> "RecursionError"]

Ok(v, n) == [ok |-> TRUE, v |-> v, next |-> n, exc |-> "none"]

IsDigit(c) == \E d \in 1..10 : Digits[d] = c

DigitVal(c) == (CHOOSE d \in 1..10 : Digits[d] = c) - 1

RECURSIVE FindQuote(_, _)
\* the position of the first Quote at or after i, 0 if there is none
FindQuote(s, i) ==
    IF i > Len(s) THEN 0
    ELSE IF s[i] = Quote THEN i ELSE FindQuote(s, i + 1)

\* a string literal starting at the Quote s[i]
ParseString(s, i) ==
    LET j == FindQuote(s, i + 1)
    IN IF j = 0 THEN Fail ELSE Ok(Str(SubSeq(s, i + 1, j - 1)), j + 1)

RECURSIVE DigitsEnd(_, _)
\* the position after the run of digits starting at i
DigitsEnd(s, i) ==
    IF i <= Len(s) /\ IsDigit(s[i]) THEN DigitsEnd(s, i + 1) ELSE i

RECURSIVE DigitsValue(_, _, _)
DigitsValue(s, i, j) ==
    IF j < i THEN 0 ELSE 10 * DigitsValue(s, i, j - 1) + DigitVal(s[j])

\* a number starting at the digit s[i]; a leading zero ends the number
ParseNumber(s, i) ==
    LET j == IF s[i] = "0" THEN i + 1 ELSE DigitsEnd(s, i)
    IN Ok(<<"int", DigitsValue(s, i, j - 1)>>, j)

RECURSIVE ParseValue(_, _)
RECURSIVE ParseMembers(_, _, _)
RECURSIVE ParseItems(_, _, _)

ParseValue(s, i0) ==
    LET i == SkipSpace(s, i0)
    IN IF i > Len(s) THEN Fail
       ELSE CASE s[i] = "{" ->
                   LET j == SkipSpace(s, i + 1)
                   IN IF j <= Len(s) /\ s[j] = "}" THEN Ok(EmptyDict, j + 1)
                      ELSE ParseMembers(s, j, <<>>)
              [] s[i] = "[" ->
                   LET j == SkipSpace(s, i + 1)
                   IN IF j <= Len(s) /\ s[j] = "]" THEN Ok(<<"list", <<>>>>, j + 1)
                      ELSE ParseItems(s, j, <<>>)
              [] s[i] = Quote -> ParseString(s, i)
              [] IsDigit(s[i]) -> ParseNumber(s, i)
              [] s[i] = "null" -> Ok(None, i + 1)
              [] s[i] = Deep -> TooDeep
              [] OTHER -> Fail

\* the members of an object from position i0 on, which must hold a key
ParseMembers(s, i0, acc) ==
    LET i == SkipSpace(s, i0)
    IN IF i > Len(s) \/ s[i] # Quote THEN Fail
       ELSE LET k == ParseString(s, i)
                c == SkipSpace(s, k.next)
                v == ParseValue(s, c + 1)
                e == SkipSpace(s, v.next)
                acc2 == Append(acc, <<k.v[2], v.v>>)
            IN IF ~k.ok THEN k
               ELSE IF c > Len(s) \/ s[c] # ":" THEN Fail
               ELSE IF ~v.ok THEN v
               ELSE IF e > Len(s) THEN Fail
               ELSE IF s[e] = "}" THEN Ok(Dict(acc2), e + 1)
               ELSE IF s[e] = "," THEN ParseMembers(s, e + 1, acc2)
               ELSE Fail

\* the items of an array from position i0 on, which must hold a value
ParseItems(s, i0, acc) ==
    LET v == ParseValue(s, i0)
        e == SkipSpace(s, v.next)
        acc2 == Append(acc, v.v)
    IN IF ~v.ok THEN v
       ELSE IF e > Len(s) THEN Fail
       ELSE IF s[e] = "]" THEN Ok(<<"list", acc2>>, e + 1)
       ELSE IF s[e] = "," THEN ParseItems(s, e + 1, acc2)
       ELSE Fail

\* the parse r of a value at the start of s is the parse of s when nothing
\* but whitespace follows the value
WholeValue(s, r) ==
    IF ~r.ok THEN r
    ELSE IF SkipSpace(s, r.next) > Len(s) THEN r ELSE Fail

\* json.loads(s): one value, then nothing but whitespace
JsonLoads(s) == WholeValue(s, ParseValue(s, 1))

-----------------------------------------------------------------------------
(* re.findall over the pattern  Fence json \s* ( { [\s\S]*? } ) \s* Fence      *)

\* the least element of a non-empty set of positions
Least(S) == CHOOSE m \in S : \A j \in S : m <= j

\* the positions q >= i with s[q] = "}" followed by whitespace and a Fence
Closes(s, i) ==
    {q \in i..Len(s) : s[q] = "}" /\ (LET k == SkipSpace(s, q + 1)
                                      IN k <= Len(s) /\ s[k] = Fence)}

\* the least q >= i with s[q] = "}" followed by whitespace and a Fence:
\* where the lazy [\s\S]*?\} can stop; 0 if there is none
FindClose(s, i) ==
    IF Closes(s, i) = {} THEN 0 ELSE Least(Closes(s, i))

NoMatch == [ok |-> FALSE, group |-> <<>>, end |-> 0]

\* the match of the pattern that starts at position i
MatchAt(s, i) ==
    IF i + 1 <= Len(s) /\ s[i] = Fence /\ s[i + 1] = "json"
    THEN LET p == SkipSpace(s, i + 2)
             q == FindClose(s, p + 1)
         IN IF p <= Len(s) /\ s[p] = "{" /\ q # 0
            THEN [ok |-> TRUE, group |-> SubSeq(s, p, q),
                  end |-> SkipSpace(s, q + 1) + 1]
            ELSE NoMatch
    ELSE NoMatch

\* the positions >= i at which the pattern matches
Starts(s, i) == {j \in i..Len(s) : MatchAt(s, j).ok}

RECURSIVE FindAllFrom(_, _)

\* the groups of the matches, the first being the match m
GroupsFrom(s, m) == <<m.group>> \o FindAllFrom(s, m.end)

\* the groups of the non-overlapping matches from position i on, left to
\* right: the scan takes the first position at which the pattern matches
\* and goes on behind that match
FindAllFrom(s, i) ==
    IF Starts(s, i) = {} THEN <<>>
    ELSE GroupsFrom(s, MatchAt(s, Least(Starts(s, i))))

FindAll(s) == FindAllFrom(s, 1)

-----------------------------------------------------------------------------
(* extract_tool_calls *)

\* the ToolCall built from a dict parsed from text (fenced block or whole text)
FromJson(d) ==
    ToolCall(Get(d, "name", EmptyStr),
             Get(d, "args", Get(d, "parameters", EmptyDict)),
             Get(d, "id", EmptyStr))

\* the ToolCall built from one record of AIMessage.tool_calls
FromRecord(tc) ==
    IF tc[1] = "dict"
    THEN LET a == Get(tc, "args", None)
             args == IF Truthy(a) THEN a ELSE Get(tc, "parameters", EmptyDict)
         IN ToolCall(Get(tc, "name", EmptyStr),
                     IF args[1] = "dict" THEN args ELSE EmptyDict,
                     Get(tc, "id", EmptyStr))
    ELSE ToolCall(Get(tc, "name", EmptyStr),
                  Get(tc, "args", Get(tc, "parameters", EmptyDict)),
                  Get(tc, "id", EmptyStr))

\* branch 1: one ToolCall per record of the native list, in order
StructuredCalls(tcs) == [i \in 1..Len(tcs) |-> FromRecord(tcs[i])]

RECURSIVE DictItems(_)
\* the ToolCalls of the dicts among the items of a parsed list
DictItems(items) ==
    IF items = <<>> THEN <<>>
    ELSE (IF items[1][1] = "dict" THEN <<FromJson(items[1])>> ELSE <<>>)
         \o DictItems(Tail(items))

\* the body of the inner try for one fenced block; the inner handler
\* (except Exception) swallows a failure of json.loads
ParsedBlockCalls(r) ==
    IF ~r.ok THEN <<>>
    ELSE IF r.v[1] = "dict" THEN <<FromJson(r.v)>>
    ELSE IF r.v[1] = "list" THEN DictItems(r.v[2])
    ELSE <<>>

BlockCalls(block) == ParsedBlockCalls(JsonLoads(Strip(block)))

RECURSIVE FencedCalls(_)
\* the for loop over json_blocks
FencedCalls(blocks) ==
    IF blocks = <<>> THEN <<>>
    ELSE BlockCalls(blocks[1]) \o FencedCalls(Tail(blocks))

\* the condition of the elif: the text looks like one JSON object
LooksLikeObject(content) ==
    /\ Strip(content) # <<>>
    /\ Strip(content)[1] = "{"
    /\ Contains(content, "name")
    /\ (Contains(content, "parameters") \/ Contains(content, "args"))

\* the exceptions the outer handler catches
OuterHandler == {"JSONDecodeError", "KeyError"}

\* the branch for a text that is one JSON object, r being what json.loads
\* made of the whole text
WholeText(r) ==
    IF ~r.ok THEN [exc |-> r.exc, calls |-> <<>>, sub |-> "whole"]
    ELSE [exc |-> "none",
          calls |-> IF r.v[1] = "dict" THEN <<FromJson(r.v)>> ELSE <<>>,
          sub |-> "whole"]

\* the outer try: [exc, calls, sub], exc the exception that leaves its body
\* and sub the branch taken after findall: "fenced" the loop over the blocks,
\* "whole" json.loads of the whole text, "none" neither
TextBody(content) ==
    LET blocks == FindAll(content)
    IN IF blocks # <<>>
       THEN [exc |-> "none", calls |-> FencedCalls(blocks), sub |-> "fenced"]
       ELSE IF LooksLikeObject(content)
       THEN WholeText(JsonLoads(Strip(content)))
       ELSE [exc |-> "none", calls |-> <<>>, sub |-> "none"]

\* the outer try with its handler, b being what its body did
OuterTry(b) ==
    IF b.exc = "none" \/ b.exc \in OuterHandler
    THEN [raised |-> FALSE, calls |-> b.calls, path |-> "text", sub |-> b.sub]
    ELSE [raised |-> TRUE, calls |-> <<>>, path |-> "text", sub |-> b.sub]

UseStructuredIfNoText(last_message) ==
    last_message.tool_calls # <<>> /\ ~Truthy(last_message.content)

\* the condition of branch 1: the native tool-call list is not empty
UseStructured(last_message) == last_message.tool_calls # <<>>

\* extract_tool_calls as [raised, calls, path, sub]: raised when an exception
\* leaves it; path the branch taken ("structured" branch 1, "text" the scan
\* of the content, "none" neither) and sub the branch taken within the scan
ExtractOutcome(last_message) ==
    IF last_message.type # "ai"
    THEN [raised |-> FALSE, calls |-> <<>>, path |-> "none", sub |-> "none"]
    ELSE IF UseStructured(last_message)
    THEN [raised |-> FALSE, calls |-> StructuredCalls(last_message.tool_calls),
          path |-> "structured", sub |-> "none"]
    ELSE IF Truthy(last_message.content) /\ last_message.content[1] = "str"
    THEN OuterTry(TextBody(last_message.content[2]))
    ELSE [raised |-> FALSE, calls |-> <<>>, path |-> "none", sub |-> "none"]

extract_tool_calls(last_message) == ExtractOutcome(last_message).calls

-----------------------------------------------------------------------------
(* parse_tool_call *)

\* the f-string call_{iteration}_{tool_index}
SynthId(it, tool_index) ==
    Str(<<"call_">> \o IntChars(it) \o <<"_">> \o IntChars(tool_index))

parse_tool_call(tool_call, it, tool_index) ==
    [tool_name |-> tool_call.name,
     tool_args |-> tool_call.args,
     tool_id   |-> IF Truthy(tool_call.id) THEN tool_call.id
                   ELSE SynthId(it, tool_index)]

-----------------------------------------------------------------------------
(* execute_tool_call.  What session.call_tool does is an outcome record:    *)
(*   [kind |-> "raise", err]                       it raises Exception(err)  *)
(*   [kind |-> "result", hascontent, content, repr]   it returns a result    *)
(* where content is a sequence of items [hastext, text, repr], repr the     *)
(* characters of str() of the object, and hascontent whether the result has *)
(* a content attribute at all.                                              *)

Raises(err) ==
    [kind |-> "raise", err |-> err, hascontent |-> FALSE, content |-> <<>>,
     repr |-> <<>>]

Result(content, repr) ==
    [kind |-> "result", err |-> <<>>, hascontent |-> TRUE, content |-> content,
     repr |-> repr]

NoContentAttr(repr) ==
    [kind |-> "result", err |-> <<>>, hascontent |-> FALSE, content |-> <<>>,
     repr |-> repr]

TextItem(text) == [hastext |-> TRUE, text |-> text, repr |-> <<"TextContent">>]

OtherItem(repr) == [hastext |-> FALSE, text |-> None, repr |-> repr]

\* the body of the try, reading the last content item instead of the first
TryBodyLastItem(outcome) ==
    IF outcome.kind = "raise" THEN [ok |-> FALSE, text |-> None, err |-> outcome.err]
    ELSE IF ~outcome.hascontent
    THEN [ok |-> FALSE, text |-> None, err |-> <<"AttributeError">>]
    ELSE LET n == Len(outcome.content)
             result_text ==
                 IF outcome.content # <<>>
                 THEN IF outcome.content[n].hastext THEN outcome.content[n].text
                      ELSE Str(outcome.content[n].repr)
                 ELSE Str(outcome.repr)
         IN IF result_text[1] \in {"str", "list"}
            THEN [ok |-> TRUE, text |-> result_text, err |-> <<>>]
            ELSE [ok |-> FALSE, text |-> None, err |-> <<"TypeError">>]

\* the body of the try: [ok, text, err]; err is str(e) of the exception
TryBody(outcome) ==
    IF outcome.kind = "raise" THEN [ok |-> FALSE, text |-> None, err |-> outcome.err]
    ELSE IF ~outcome.hascontent
    THEN [ok |-> FALSE, text |-> None, err |-> <<"AttributeError">>]
    ELSE LET result_text ==
                 IF outcome.content # <<>>
                 THEN IF outcome.content[1].hastext THEN outcome.content[1].text
                      ELSE Str(outcome.content[1].repr)
                 ELSE Str(outcome.repr)
         IN \* result_text[:200] raises TypeError unless it can be sliced
            IF result_text[1] \in {"str", "list"}
            THEN [ok |-> TRUE, text |-> result_text, err |-> <<>>]
            ELSE [ok |-> FALSE, text |-> None, err |-> <<"TypeError">>]

\* the f-string of the except branch: the tool name in quotes, a fixed
\* text saying that an error occurred while running the tool, then str(e)
ErrorMsg(tool_name, err) ==
    Str(<<"tool '">> \o Format(tool_name) \o <<"' error: ">> \o err)

\* execute_tool_call without its try: a fault of the body leaves it
execute_tool_call_unguarded(outcome, tool_name, tool_args, tool_id) ==
    LET b == TryBody(outcome)
    IN IF b.ok
       THEN [raised |-> FALSE, failed |-> FALSE,
             msg |-> ToolMessage(b.text, tool_id, tool_name)]
       ELSE [raised |-> TRUE, failed |-> FALSE, msg |-> None]

\* [raised, failed, msg]: raised when an exception leaves execute_tool_call,
\* failed when it returns from its except branch
execute_tool_call(outcome, tool_name, tool_args, tool_id) ==
    LET b == TryBody(outcome)
    IN IF b.ok
       THEN [raised |-> FALSE, failed |-> FALSE,
             msg |-> ToolMessage(b.text, tool_id, tool_name)]
       ELSE [raised |-> FALSE, failed |-> TRUE,
             msg |-> ToolMessage(ErrorMsg(tool_name, b.err), tool_id, tool_name)]

-----------------------------------------------------------------------------
(* What the collaborators of the loop may do *)

RECURSIVE Dumps(_)
RECURSIVE DumpPairs(_)
RECURSIVE DumpItems(_)
\* the JSON text of a value as a model writes it, without whitespace
Dumps(v) ==
    CASE v[1] = "str"  -> <<Quote>> \o v[2] \o <<Quote>>
      [] v[1] = "int"  -> IntChars(v[2])
      [] v[1] = "none" -> <<"null">>
      [] v[1] = "dict" -> <<"{">> \o DumpPairs(v[2]) \o <<"}">>
      [] v[1] = "list" -> <<"[">> \o DumpItems(v[2]) \o <<"]">>

DumpPairs(pairs) ==
    IF pairs = <<>> THEN <<>>
    ELSE <<Quote>> \o pairs[1][1] \o <<Quote, ":">> \o Dumps(pairs[1][2])
         \o (IF Len(pairs) > 1 THEN <<",">> ELSE <<>>) \o DumpPairs(Tail(pairs))

DumpItems(items) ==
    IF items = <<>> THEN <<>>
    ELSE Dumps(items[1]) \o (IF Len(items) > 1 THEN <<",">> ELSE <<>>)
         \o DumpItems(Tail(items))

\* a fenced block labelled json holding the text body
Fenced(body) == <<Fence, "json", "nl">> \o body \o <<"nl", Fence>>

Pair(k, v) == <<<<k>>, v>>

ArgsA == Dict(<<Pair("a", <<"int", 1>>)>>)

\* the arguments of a read_csv call for a path that does not exist
ArgsMissing == Dict(<<Pair("file_path", Str(<<"missing.csv">>))>>)

\* the assistant messages the model endpoint answers with in the loop
AIChoices ==
    { AIMessage(Str(<<"done">>), <<>>),
      AIMessage(EmptyStr,
                <<Dict(<<Pair("name", Str(<<"add">>)), Pair("args", ArgsA),
                         Pair("id", Str(<<"x">>))>>)>>),
      AIMessage(EmptyStr,
                <<Dict(<<Pair("name", Str(<<"add">>)), Pair("args", ArgsA)>>)>>),
      AIMessage(EmptyStr,
                <<Dict(<<Pair("name", Str(<<"read_csv">>)),
                         Pair("args", ArgsMissing),
                         Pair("id", Str(<<"call_", "0", "_", "1">>))>>),
                  Dict(<<Pair("name", Str(<<"add">>)), Pair("args", ArgsA)>>)>>),
      AIMessage(Str(<<"use", " ">>
                    \o Fenced(Dumps(Dict(<<Pair("name", Str(<<"add">>)),
                                           Pair("args", ArgsA)>>)))),
                <<>>),
      AIMessage(Str(Fenced(<<"{", "oops", "}">>)), <<>>) }

\* the turns an agent that runs a tool by itself adds in one round-trip: its
\* request, the tool's answer, and its closing answer
OwnToolRun ==
    << AIMessage(EmptyStr,
                 <<Dict(<<Pair("name", Str(<<"add">>)), Pair("args", ArgsA),
                          Pair("id", Str(<<"x">>))>>)>>),
       ToolMessage(Str(<<"8">>), Str(<<"x">>), Str(<<"add">>)),
       AIMessage(Str(<<"done">>), <<>>) >>

\* what agent.ainvoke({"messages": msgs}) may do: raise, return a result
\* without the key "messages", or return a result with a message list
ModelReplies(msgs) ==
    { [kind |-> "raise", messages |-> <<>>],
      [kind |-> "nokey", messages |-> <<>>],
      [kind |-> "messages", messages |-> <<>>],
      [kind |-> "messages", messages |-> Append(msgs, HumanMessage(Str(<<"hm">>)))],
      [kind |-> "messages", messages |-> msgs \o OwnToolRun] }
    \cup { [kind |-> "messages", messages |-> Append(base, m)] :
             base \in {msgs, <<>>}, m \in AIChoices }

\* the paths that exist on the server's file system
Files == {<<"data.csv">>, <<"other.csv">>, <<"bad.csv">>}

\* the existing paths on which pd.read_csv raises (no CSV, no permission)
Unreadable == {<<"bad.csv">>}

\* the DataFrame pd.read_csv makes of the file at path
DataFrame(path) == <<"df", path>>

NotFoundMsgNoPath(file_path) == Str(<<"error: file not found">>)

\* the f-string read_csv returns for a path that does not exist: a fixed
\* text, the path in quotes, and the words saying it was not found
NotFoundMsg(file_path) ==
    Str(<<"error: file '">> \o Format(file_path) \o <<"' not found">>)

\* the f-string of the except branch of read_csv
ReadFailedMsg(err) == Str(<<"error: failed to read: ">> \o err)

\* the text read_csv returns after loading: the path, rows, columns, names
LoadedMsg(file_path) ==
    Str(<<"loaded '">> \o file_path[2] \o <<"' rows columns">>)

\* a read_csv that drops the data it holds before it looks at the path
read_csv_resetting(file_path, data) ==
    IF file_path[1] # "str"
    THEN [text |-> ReadFailedMsg(<<"TypeError">>), loaded |-> None]
    ELSE IF file_path[2] \notin Files
    THEN [text |-> NotFoundMsg(file_path), loaded |-> None]
    ELSE IF file_path[2] \in Unreadable
    THEN [text |-> ReadFailedMsg(<<"ParserError">>), loaded |-> None]
    ELSE [text |-> LoadedMsg(file_path), loaded |-> DataFrame(file_path[2])]

\* read_csv of server.py, called while _loaded_data is data, as
\* [text, loaded]: the text it returns and the value of _loaded_data after
\* it.  The global is assigned only when pd.read_csv has returned.
read_csv(file_path, data) ==
    IF file_path[1] # "str"
    THEN [text |-> ReadFailedMsg(<<"TypeError">>), loaded |-> data]
    ELSE IF file_path[2] \notin Files
    THEN [text |-> NotFoundMsg(file_path), loaded |-> data]
    ELSE IF file_path[2] \in Unreadable
    THEN [text |-> ReadFailedMsg(<<"ParserError">>), loaded |-> data]
    ELSE [text |-> LoadedMsg(file_path), loaded |-> DataFrame(file_path[2])]

\* the text describe_data returns when no data is loaded
NoDataMsg == Str(<<"error: no data loaded, call read_csv first">>)

\* the text describe_data makes of a DataFrame: its statistics, its dtypes
\* and its missing values
Description(df) == Str(<<"statistics, dtypes, nulls of '">> \o df[2] \o <<"'">>)

\* describe_data of server.py, called while _loaded_data is data, as
\* [text, loaded].  Its except branch is for describe() or to_string()
\* raising, which they do not on a DataFrame that pd.read_csv returned.
describe_data(data) ==
    IF data = None THEN [text |-> NoDataMsg, loaded |-> data]
    ELSE [text |-> Description(data), loaded |-> data]

\* add of server.py, as [text, loaded]
add(a, b, data) == [text |-> Str(IntChars(a + b)), loaded |-> data]

\* the result of call_tool for a tool that returned text
ServerAnswer(text) == Result(<<TextItem(text)>>, <<"CallToolResult">>)

\* the call is a read_csv call with a file_path argument
IsReadCsv(call) ==
    /\ call.tool_name = Str(<<"read_csv">>)
    /\ call.tool_args[1] = "dict"
    /\ Get(call.tool_args, "file_path", None) # None

\* what session.call_tool may do in the loop for the call in flight: the
\* transport fails, or the server's tool answers
SessionOutcomes(call) ==
    { Raises(<<"boom">>),
      IF IsReadCsv(call)
      THEN ServerAnswer(read_csv(Get(call.tool_args, "file_path", None),
                                 None).text)
      ELSE ServerAnswer(Str(<<"8">>)) }

-----------------------------------------------------------------------------
(* run_agent_loop *)

Question == Str(<<"question">>)

NoCall == [tool_name |-> None, tool_args |-> None, tool_id |-> None]

\* the variables of the other specifications, which stay as they are
ExtractIdle == ein = None /\ eout = None /\ epc = "idle"

InvokeIdle == iin = None /\ iout = None /\ ipc = "idle"

ServerIdle == loaded_data = None /\ slog = <<>> /\ spc = "idle"

LoopInit ==
    /\ max_iterations \in 0..MaxIter
    /\ pc = "while"
    /\ iteration = 0
    /\ messages = <<HumanMessage(Question)>>
    /\ tool_calls = <<>>
    /\ idx = 0
    /\ cur = NoCall
    /\ final = <<"none">>
    /\ warned = FALSE
    /\ rounds = 0
    /\ invocations = 0
    /\ sent = <<>>
    /\ trace = <<>>
    /\ applog = <<>>
    /\ fault = "none"

Init == LoopInit /\ ExtractIdle /\ InvokeIdle /\ ServerIdle

LoopIdle ==
    /\ max_iterations = 0
    /\ pc = "idle"
    /\ iteration = 0
    /\ messages = <<>>
    /\ tool_calls = <<>>
    /\ idx = 0
    /\ cur = NoCall
    /\ final = <<"none">>
    /\ warned = FALSE
    /\ rounds = 0
    /\ invocations = 0
    /\ sent = <<>>
    /\ trace = <<>>
    /\ applog = <<>>
    /\ fault = "none"

\* the condition of the while loop
LoopCondLe(it, max) == it <= max

LoopCond(it, max) == it < max

\* while iteration < max_iterations: ... await agent.ainvoke(...)
CallModel ==
    /\ pc = "while"
    /\ LoopCond(iteration, max_iterations)
    /\ pc' = "await_model"
    /\ sent' = messages
    /\ rounds' = rounds + 1
    /\ UNCHANGED <<iteration, max_iterations, messages, tool_calls, idx, cur,
                   final, warned, invocations, trace, applog, fault>>
    /\ UNCHANGED <<extractvars, invokevars, servervars>>

\* the while condition is false
ExitLoop ==
    /\ pc = "while"
    /\ ~LoopCond(iteration, max_iterations)
    /\ pc' = "after"
    /\ UNCHANGED <<iteration, max_iterations, messages, tool_calls, idx, cur,
                   final, warned, rounds, invocations, sent, trace, applog,
                   fault>>
    /\ UNCHANGED <<extractvars, invokevars, servervars>>

FinalPrintRepr(last_message) == <<"message", last_message>>

\* what the final-answer branch prints
FinalPrint(last_message) ==
    IF last_message.type = "ai" THEN <<"content", last_message.content>>
    ELSE <<"message", last_message>>

\* the loop body from the test of the result up to the for loop or the
\* break, ex being what extract_tool_calls does with the last message
LoopBody(reply, ex) ==
    /\ pc = "await_model"
    /\ LET returned == reply.messages
           last_message == returned[Len(returned)]
           entry == [kind |-> reply.kind, returned |-> returned,
                     extracted |-> reply.kind = "messages" /\ returned # <<>>,
                     ncalls |-> IF reply.kind = "messages" /\ returned # <<>>
                                THEN Len(ex.calls) ELSE 0]
       IN /\ trace' = Append(trace, entry)
          /\ IF reply.kind = "raise"
             THEN /\ pc' = "raised"
                  /\ fault' = "ainvoke"
                  /\ UNCHANGED <<messages, tool_calls, idx, final>>
             ELSE IF reply.kind = "nokey"
             THEN /\ pc' = "after"
                  /\ UNCHANGED <<messages, tool_calls, idx, final, fault>>
             ELSE IF returned = <<>>
             THEN \* result["messages"][-1] raises IndexError
                  /\ pc' = "raised"
                  /\ fault' = "IndexError"
                  /\ UNCHANGED <<messages, tool_calls, idx, final>>
             ELSE IF ex.raised
             THEN /\ pc' = "raised"
                  /\ fault' = "extract_tool_calls"
                  /\ messages' = returned
                  /\ UNCHANGED <<tool_calls, idx, final>>
             ELSE /\ messages' = returned
                  /\ tool_calls' = ex.calls
                  /\ idx' = 0
                  /\ UNCHANGED fault
                  /\ IF ex.calls # <<>>
                     THEN pc' = "for" /\ UNCHANGED final
                     ELSE pc' = "after" /\ final' = FinalPrint(last_message)
    /\ UNCHANGED <<iteration, max_iterations, cur, warned, rounds, invocations,
                   sent, applog>>
    /\ UNCHANGED <<extractvars, invokevars, servervars>>

\* ainvoke is over: the loop body up to the for loop or the break
ModelReturns(reply) ==
    LoopBody(reply, ExtractOutcome(reply.messages[Len(reply.messages)]))

NextCallReversed(tcs, i) == tcs[Len(tcs) - i]

\* enumerate(tool_calls): the call the for loop takes at index i
NextCall(tcs, i) == tcs[i + 1]

\* the for loop takes the next tool call: parse_tool_call, then
\* await session.call_tool(...) inside execute_tool_call
CallTool ==
    /\ pc = "for"
    /\ idx < Len(tool_calls)
    /\ cur' = parse_tool_call(NextCall(tool_calls, idx), iteration, idx)
    /\ invocations' = invocations + 1
    /\ pc' = "await_tool"
    /\ UNCHANGED <<iteration, max_iterations, messages, tool_calls, idx, final,
                   warned, rounds, sent, trace, applog, fault>>
    /\ UNCHANGED <<extractvars, invokevars, servervars>>

ReplaceLast(msgs, m) == [msgs EXCEPT ![Len(msgs)] = m]

\* a loop that gives up the remaining calls of the iteration when one fails
ToolReturnsAbort(outcome) ==
    /\ pc = "await_tool"
    /\ LET r == execute_tool_call(outcome, cur.tool_name, cur.tool_args,
                                  cur.tool_id)
       IN /\ messages' = Append(messages, r.msg)
          /\ idx' = IF r.failed THEN Len(tool_calls) ELSE idx + 1
          /\ pc' = "for"
          /\ applog' = Append(applog,
                  [iter |-> iteration, idx |-> idx,
                   call |-> tool_calls[idx + 1], outcome |-> outcome,
                   msg |-> r.msg, pos |-> Len(messages) + 1])
    /\ cur' = NoCall
    /\ UNCHANGED <<iteration, max_iterations, tool_calls, final, warned, rounds,
                   invocations, sent, trace, fault>>
    /\ UNCHANGED <<extractvars, invokevars, servervars>>

AppendNothing(msgs, m) == msgs

\* messages.append(tool_message)
AppendMessage(msgs, m) == Append(msgs, m)

\* call_tool is over: the rest of execute_tool_call, then messages.append
ToolReturns(outcome) ==
    /\ pc = "await_tool"
    /\ LET r == execute_tool_call(outcome, cur.tool_name, cur.tool_args,
                                  cur.tool_id)
       IN IF r.raised
          THEN /\ pc' = "raised"
               /\ fault' = "execute_tool_call"
               /\ UNCHANGED <<messages, idx, applog>>
          ELSE /\ messages' = AppendMessage(messages, r.msg)
               /\ idx' = idx + 1
               /\ pc' = "for"
               /\ applog' = Append(applog,
                       [iter |-> iteration, idx |-> idx,
                        call |-> tool_calls[idx + 1], outcome |-> outcome,
                        msg |-> r.msg, pos |-> Len(messages) + 1])
               /\ UNCHANGED fault
    /\ cur' = NoCall
    /\ UNCHANGED <<iteration, max_iterations, tool_calls, final, warned, rounds,
                   invocations, sent, trace>>
    /\ UNCHANGED <<extractvars, invokevars, servervars>>

IncrementByCalls(it, ncalls) == it + ncalls

\* iteration += 1, whatever the number of calls of the iteration
Increment(it, ncalls) == it + 1

\* the for loop is exhausted: iteration += 1; continue
EndIteration ==
    /\ pc = "for"
    /\ idx = Len(tool_calls)
    /\ iteration' = Increment(iteration, Len(tool_calls))
    /\ pc' = "while"
    /\ UNCHANGED <<max_iterations, messages, tool_calls, idx, cur, final, warned,
                   rounds, invocations, sent, trace, applog, fault>>
    /\ UNCHANGED <<extractvars, invokevars, servervars>>

WarnCondOffByOne(it, max) == it + 1 >= max

\* the condition of the warning after the loop
WarnCond(it, max) == it >= max

\* after the loop: the warning when iteration >= max_iterations
AfterLoop ==
    /\ pc = "after"
    /\ warned' = WarnCond(iteration, max_iterations)
    /\ pc' = "done"
    /\ UNCHANGED <<iteration, max_iterations, messages, tool_calls, idx, cur,
                   final, rounds, invocations, sent, trace, applog, fault>>
    /\ UNCHANGED <<extractvars, invokevars, servervars>>

Next ==
    \/ CallModel
    \/ ExitLoop
    \/ \E reply \in ModelReplies(messages) : ModelReturns(reply)
    \/ CallTool
    \/ \E outcome \in SessionOutcomes(cur) : ToolReturns(outcome)
    \/ EndIteration
    \/ AfterLoop

Spec == Init /\ [][Next]_vars

\* the event loop resumes the coroutine whenever the awaited call is over,
\* and both collaborators answer every call
FairSpec == Spec /\ WF_vars(Next)

-----------------------------------------------------------------------------
(* Properties of run_agent_loop *)

Last(seq) == seq[Len(seq)]

\* s holds the characters sub in a row
IsInfix(sub, s) ==
    \E i \in 0..(Len(s) - Len(sub)) : SubSeq(s, i + 1, i + Len(sub)) = sub

\* every round-trip so far returned a message list whose last message
\* requests exactly one tool call
OneCallEveryRound ==
    \A i \in 1..Len(trace) : trace[i].kind = "messages" /\ trace[i].ncalls = 1

\* every round-trip so far returned a message list whose last message is an
\* assistant message requesting no tool call
NoCallEveryRound ==
    \A i \in 1..Len(trace) :
        /\ trace[i].kind = "messages"
        /\ trace[i].returned # <<>>
        /\ Last(trace[i].returned).type = "ai"
        /\ trace[i].ncalls = 0

\* C1: with a model that requests one tool call on every round-trip, a run
\* with max_iterations = N makes at most N round-trips, ends (it does end)
\* after exactly N of them with the max-iterations warning and no final
\* answer, and with N = 0 makes no round-trip and no tool invocation.
C1_IterationBound ==
    /\ [](OneCallEveryRound =>
            /\ rounds <= max_iterations
            /\ pc # "raised"
            /\ (max_iterations = 0 => rounds = 0 /\ invocations = 0)
            /\ (pc = "done" =>
                  /\ rounds = max_iterations
                  /\ iteration = max_iterations
                  /\ warned
                  /\ final = <<"none">>))
    /\ <>(~OneCallEveryRound \/ pc = "done")

C1_Witness ==
    /\ pc = "done"
    /\ OneCallEveryRound
    /\ max_iterations >= 2
    /\ rounds = max_iterations
    /\ invocations = max_iterations
    /\ warned

\* C2: with a model that requests no tool call, a run with max_iterations >= 1
\* ends (it does end) after exactly one round-trip and no tool invocation,
\* having printed the content of the model's last message as the final
\* answer, without the max-iterations warning.
C2_SingleRound ==
    /\ [](NoCallEveryRound /\ max_iterations >= 1 =>
            /\ rounds <= 1
            /\ invocations = 0
            /\ pc # "raised"
            /\ (pc = "done" =>
                  /\ rounds = 1
                  /\ ~warned
                  /\ final = <<"content", Last(trace[1].returned).content>>))
    /\ <>(~NoCallEveryRound \/ max_iterations = 0 \/ pc = "done")

C2_Witness ==
    /\ pc = "done"
    /\ NoCallEveryRound
    /\ max_iterations >= 1
    /\ rounds = 1
    /\ final = <<"content", Str(<<"done">>)>>

\* C3: whatever the model endpoint and the tool session do, run_agent_loop
\* never ends in an exception that leaves it.
C3_NothingEscapes == pc # "raised"

\* the try body of execute_tool_call faults on this outcome of call_tool:
\* the call raises, the result has no content, or the text is no string
Faulty(outcome) ==
    \/ outcome.kind = "raise"
    \/ ~outcome.hascontent
    \/ /\ outcome.content # <<>>
       /\ outcome.content[1].hastext
       /\ outcome.content[1].text[1] \in {"none", "int"}

\* msg is a tool message for (tool_name, tool_id) whose content is a
\* non-empty text naming the tool and, when call_tool raised, str(e)
IsDiagnostic(msg, tool_name, tool_id, outcome) ==
    /\ msg.type = "tool"
    /\ msg.tool_call_id = tool_id
    /\ msg.name = tool_name
    /\ msg.content[1] = "str"
    /\ msg.content[2] # <<>>
    /\ IsInfix(Format(tool_name), msg.content[2])
    /\ outcome.kind = "raise" => IsInfix(outcome.err, msg.content[2])

\* the call_id parse_tool_call is to give a request
ExpectedId(call, it, i) ==
    IF call.id[1] = "str" /\ call.id[2] # <<>> THEN call.id
    ELSE Str(<<"call_">> \o IntChars(it) \o <<"_">> \o IntChars(i))

\* the places of applog that hold a failed invocation of iteration it
FailuresOf(it) ==
    {k \in 1..Len(applog) : applog[k].iter = it /\ Faulty(applog[k].outcome)}

AppendedIn(it) == {k \in 1..Len(applog) : applog[k].iter = it}

\* C5: a failed tool invocation puts a tool message describing the failure at
\* the end of the conversation and does not end the run; the remaining calls
\* of the iteration are still made; and when the counter is still below
\* max_iterations the model is called again, with a conversation that holds
\* every failure message of the iteration.
C5_FailureIsObserved ==
    /\ [](/\ fault # "execute_tool_call"
          /\ \A k \in 1..Len(applog) :
                Faulty(applog[k].outcome) =>
                    IsDiagnostic(applog[k].msg, applog[k].call.name,
                                 ExpectedId(applog[k].call, applog[k].iter,
                                            applog[k].idx),
                                 applog[k].outcome)
          /\ (pc \in {"for", "await_tool"} =>
                /\ Cardinality(AppendedIn(iteration)) = idx
                /\ \A k \in AppendedIn(iteration) :
                      messages[applog[k].pos] = applog[k].msg)
          /\ (pc = "while" /\ iteration > 0 =>
                Cardinality(AppendedIn(iteration - 1)) = Len(tool_calls))
          /\ (pc = "await_model" /\ iteration > 0 =>
                \A k \in FailuresOf(iteration - 1) :
                    sent[applog[k].pos] = applog[k].msg))
    /\ ((pc = "while" /\ iteration < max_iterations
            /\ FailuresOf(iteration - 1) # {})
         ~> (pc = "await_model" /\ FailuresOf(iteration - 1) # {}
               /\ \A k \in FailuresOf(iteration - 1) :
                     sent[applog[k].pos] = applog[k].msg))

C5_Witness ==
    /\ pc = "await_model"
    /\ rounds = 2
    /\ Len(tool_calls) = 2
    /\ Cardinality(AppendedIn(0)) = 2
    /\ Faulty(applog[1].outcome)
    /\ sent[applog[1].pos] = applog[1].msg

\* C6: every tool message carries the call_id and the tool name of the
\* request it answers; the tool messages of an iteration are the last
\* entries of the conversation, one per request and in the order of the
\* extracted requests; and tool messages are appended in the order of the
\* iterations.
C6_ObservationOrder ==
    /\ \A k \in 1..Len(applog) :
          /\ applog[k].msg.type = "tool"
          /\ applog[k].msg.tool_call_id
                = ExpectedId(applog[k].call, applog[k].iter, applog[k].idx)
          /\ applog[k].msg.name = applog[k].call.name
    /\ \A k, l \in 1..Len(applog) :
          k < l => \/ applog[k].iter < applog[l].iter
                   \/ /\ applog[k].iter = applog[l].iter
                      /\ applog[k].idx < applog[l].idx
    /\ (pc = "while" /\ iteration > 0 => idx = Len(tool_calls))
    /\ (pc \in {"for", "await_tool"} \/ (pc = "while" /\ iteration > 0) =>
          LET it == IF pc = "while" THEN iteration - 1 ELSE iteration
          IN /\ Len(messages) = Len(Last(trace).returned) + idx
             /\ \A j \in 1..idx :
                   LET m == messages[Len(messages) - idx + j]
                   IN /\ m.type = "tool"
                      /\ m.tool_call_id = ExpectedId(tool_calls[j], it, j - 1)
                      /\ m.name = tool_calls[j].name)

C6_Witness ==
    /\ pc = "while"
    /\ iteration = 2
    /\ Len(applog) = 3
    /\ applog[1].call.name # applog[2].call.name
    /\ applog[3].iter = 1

\* C7: within a run no two tool invocations have the same call_id, so a tool
\* message's call_id matches exactly one request of its iteration.
C7_CallIdsUnique ==
    \A k, l \in 1..Len(applog) :
        k # l => applog[k].msg.tool_call_id # applog[l].msg.tool_call_id

\* C8 as stated: across every step the conversation keeps the turns it has
\* and its length does not decrease.
C8_AppendOnly ==
    [][/\ Len(messages') >= Len(messages)
       /\ SubSeq(messages', 1, Len(messages)) = messages]_vars

\* C8 as amended: the conversation starts as the single human turn; a tool
\* step appends one tool message and keeps the turns before it; the model
\* step replaces the conversation by the message list the endpoint returned;
\* no other step changes it.
C8_AppendOrAdopt ==
    /\ [](trace = <<>> => messages = <<HumanMessage(Question)>>)
    /\ [][\/ messages' = messages
          \/ /\ pc = "await_tool"
             /\ Len(messages') = Len(messages) + 1
             /\ SubSeq(messages', 1, Len(messages)) = messages
             /\ Last(messages').type = "tool"
          \/ /\ pc = "await_model"
             /\ messages' = Last(trace').returned]_vars

C8_Witness ==
    /\ pc = "for"
    /\ idx = 1
    /\ rounds = 2
    /\ Len(Last(trace).returned) < Len(sent)
    /\ Len(messages) = Len(Last(trace).returned) + 1

\* the request of applog[k] is a read_csv call for a path that does not
\* exist, and the server answered it
MissingCsvAt(k) ==
    /\ applog[k].call.name = Str(<<"read_csv">>)
    /\ applog[k].call.args = ArgsMissing
    /\ applog[k].outcome.kind = "result"

\* C13: a read_csv call for a path that does not exist gives a tool message
\* whose text holds the path as it was given and the not-found words; the
\* message is appended to the conversation, no exception ends the run, and
\* the loop goes on (it does) with the next call or the next iteration.
C13_MissingCsv ==
    /\ [](\A k \in 1..Len(applog) :
            MissingCsvAt(k) =>
                /\ applog[k].msg.type = "tool"
                /\ applog[k].msg.name = Str(<<"read_csv">>)
                /\ applog[k].msg.content[1] = "str"
                /\ IsInfix(<<"missing.csv">>, applog[k].msg.content[2])
                /\ IsInfix(<<"' not found">>, applog[k].msg.content[2])
                /\ fault # "execute_tool_call"
                /\ (k = Len(applog) /\ pc = "for" =>
                      Last(messages) = applog[k].msg))
    /\ [][pc = "await_tool" /\ IsReadCsv(cur)
            /\ cur.tool_args = ArgsMissing =>
            /\ pc' = "for"
            /\ messages' = Append(messages, Last(applog').msg)
            /\ idx' = idx + 1]_vars
    /\ ((pc = "await_tool" /\ cur.tool_args = ArgsMissing)
          ~> (pc = "for" /\ cur = NoCall /\ Last(messages).type = "tool"))

C13_Witness ==
    /\ pc = "await_tool"
    /\ idx = 1
    /\ Len(applog) = 1
    /\ MissingCsvAt(1)
    /\ Last(messages).content = NotFoundMsg(Str(<<"missing.csv">>))

RECURSIVE AssistantTurns(_)
\* the number of assistant turns in a conversation
AssistantTurns(msgs) ==
    IF msgs = <<>> THEN 0
    ELSE (IF msgs[1].type = "ai" THEN 1 ELSE 0) + AssistantTurns(Tail(msgs))

\* C19: no step of the loop, and so no iteration, adds more than one
\* assistant turn to the conversation.
C19_OneAssistantTurn ==
    [][AssistantTurns(messages') <= AssistantTurns(messages) + 1]_vars

\* what does hold: only the step that takes over the returned message list
\* changes the number of assistant turns
C19_OnlyModelStepAdds ==
    [][pc # "await_model" =>
          AssistantTurns(messages') = AssistantTurns(messages)]_vars

\* the round-trips so far that yielded at least one tool call
CallRounds == {i \in 1..Len(trace) : trace[i].ncalls >= 1}

\* the run ended by the final-answer branch / by a result without messages
FinalAnswerExit == final # <<"none">>

AnomalyExit == trace # <<>> /\ Last(trace).kind = "nokey"

\* C20: the counter stays within 0..max_iterations; it grows only at the end
\* of an iteration that had at least one tool call, and then by exactly one,
\* so it counts those round-trips; a run that ended has printed the warning
\* exactly when the counter equals max_iterations, and never after the
\* final-answer exit or the exit for a result without messages, which
\* exclude each other.
C20_CounterAndOutcomes ==
    /\ [](/\ 0 <= iteration
          /\ iteration <= max_iterations
          /\ iteration = Cardinality(CallRounds)
                           - (IF pc \in {"for", "await_tool"} THEN 1 ELSE 0)
          /\ ~(FinalAnswerExit /\ AnomalyExit)
          /\ (warned => pc = "done")
          /\ (pc = "done" =>
                /\ (warned <=> iteration = max_iterations)
                /\ (FinalAnswerExit \/ AnomalyExit => ~warned)))
    /\ [][\/ iteration' = iteration
          \/ /\ iteration' = iteration + 1
             /\ pc = "for"
             /\ Last(trace).ncalls >= 1
             /\ idx = Last(trace).ncalls]_vars

C20_Witness ==
    /\ pc = "done"
    /\ warned
    /\ max_iterations = 2
    /\ iteration = 2
    /\ trace[1].ncalls = 2
    /\ trace[2].ncalls = 1

\* C12: when ainvoke returns a result without a message list, the run goes
\* straight to its end (it does end): nothing is extracted, no tool is
\* invoked, the conversation stays as it was sent, no further round-trip is
\* made, nothing is printed as the final answer, and the max-iterations
\* warning is not printed.
C12_ProtocolAnomaly ==
    /\ [][pc = "await_model" /\ trace' # trace /\ Last(trace').kind = "nokey" =>
            /\ pc' = "after"
            /\ ~Last(trace').extracted
            /\ messages' = messages
            /\ tool_calls' = tool_calls
            /\ iteration' = iteration
            /\ invocations' = invocations
            /\ final' = final]_vars
    /\ [](trace # <<>> /\ Last(trace).kind = "nokey" =>
            /\ pc \in {"after", "done"}
            /\ rounds = Len(trace)
            /\ messages = sent
            /\ invocations = Len(applog)
            /\ final = <<"none">>
            /\ ~warned)
    /\ ((trace # <<>> /\ Last(trace).kind = "nokey") ~> pc = "done")

C12_Witness ==
    /\ pc = "done"
    /\ trace # <<>>
    /\ Last(trace).kind = "nokey"
    /\ rounds = 2
    /\ max_iterations = 2
    /\ Len(applog) >= 1
    /\ ~warned

\* the number of remote operations that were started and are not yet over
InFlight ==
    (rounds - Len(trace))
    + (invocations - Len(applog) - (IF fault = "execute_tool_call" THEN 1 ELSE 0))

\* C14: at most one remote operation (ainvoke or call_tool) is in flight;
\* while a tool invocation is in flight, every earlier invocation of the
\* iteration has returned and its tool message is in the conversation; and a
\* round-trip is started only when every call of the iteration before it
\* has returned and its tool message is in the conversation that is sent.
C14_Sequential ==
    /\ InFlight \in {0, 1}
    /\ (InFlight = 1 <=> pc \in {"await_model", "await_tool"})
    /\ (pc = "await_tool" =>
          /\ invocations = Len(applog) + 1
          /\ Cardinality(AppendedIn(iteration)) = idx
          /\ Len(messages) = Len(Last(trace).returned) + idx
          /\ \A k \in AppendedIn(iteration) :
                messages[Len(Last(trace).returned) + applog[k].idx + 1]
                    = applog[k].msg)
    /\ (pc = "await_model" /\ rounds > 1 =>
          /\ invocations = Len(applog)
          /\ Cardinality(AppendedIn(iteration - 1)) = Last(trace).ncalls
          /\ Len(sent) = Len(Last(trace).returned) + Last(trace).ncalls
          /\ \A k \in AppendedIn(iteration - 1) :
                sent[Len(Last(trace).returned) + applog[k].idx + 1]
                    = applog[k].msg)

C14_Witness ==
    /\ pc = "await_model"
    /\ rounds = 2
    /\ invocations = 2
    /\ Len(applog) = 2
    /\ Len(sent) = Len(Last(trace).returned) + 2

-----------------------------------------------------------------------------
(* execute_tool_call alone: one call, for every tool name, call id and      *)
(* outcome of session.call_tool of InvokeInputs                             *)

ToolNames == {Str(<<"add">>), Str(<<"read_csv">>), Str(<<"nope">>)}

ToolIds == {Str(<<"x">>), SynthId(0, 0)}

InvokeOutcomes ==
    { Raises(<<"boom">>),
      Raises(<<"Unknown", " ", "tool">>),
      Raises(<<>>),
      Result(<<TextItem(Str(<<"8">>))>>, <<"CallToolResult">>),
      Result(<<TextItem(Str(<<"8">>)), OtherItem(<<"ImageContent">>)>>,
             <<"CallToolResult">>),
      Result(<<TextItem(EmptyStr)>>, <<"CallToolResult">>),
      Result(<<OtherItem(<<"ImageContent">>), TextItem(Str(<<"8">>))>>,
             <<"CallToolResult">>),
      Result(<<>>, <<"CallToolResult">>),
      Result(<<TextItem(None)>>, <<"CallToolResult">>),
      Result(<<TextItem(<<"int", 8>>)>>, <<"CallToolResult">>),
      NoContentAttr(<<"object">>) }

InvokeInputs ==
    [tool_name : ToolNames, tool_args : {ArgsA}, tool_id : ToolIds,
     outcome : InvokeOutcomes]

InvokeInit ==
    /\ iin \in InvokeInputs
    /\ iout = None
    /\ ipc = "call"
    /\ LoopIdle
    /\ ExtractIdle
    /\ ServerIdle

Invoke ==
    /\ ipc = "call"
    /\ iout' = execute_tool_call(iin.outcome, iin.tool_name, iin.tool_args,
                                 iin.tool_id)
    /\ ipc' = "returned"
    /\ UNCHANGED <<iin, loopvars, extractvars, servervars>>

SpecInvoke == InvokeInit /\ [][Invoke]_vars

\* C4: no exception leaves execute_tool_call; whenever call_tool raises or
\* its result is malformed, execute_tool_call returns from its except branch
\* a tool message with the call_id and the tool name of the request, whose
\* content is a non-empty text that names the tool and the error.
C4_InvokeNeverRaises ==
    ipc = "returned" =>
        /\ ~iout.raised
        /\ iout.msg.type = "tool"
        /\ iout.msg.tool_call_id = iin.tool_id
        /\ iout.msg.name = iin.tool_name
        /\ (Faulty(iin.outcome) =>
              /\ iout.failed
              /\ IsDiagnostic(iout.msg, iin.tool_name, iin.tool_id,
                              iin.outcome))

C4_Witness ==
    /\ ipc = "returned"
    /\ iin.tool_name = Str(<<"nope">>)
    /\ iin.outcome.kind = "raise"
    /\ iout.failed
    /\ IsInfix(<<"nope">>, iout.msg.content[2])

\* call_tool returned a result with a content sequence whose first item, if
\* it exposes a text, exposes a string
WellFormed(outcome) ==
    /\ outcome.kind = "result"
    /\ outcome.hascontent
    /\ (outcome.content # <<>> /\ outcome.content[1].hastext =>
          outcome.content[1].text[1] = "str")

\* C18 as stated: the text of the tool message is the text of the first
\* content item if it has one, otherwise the string form of the result; for
\* an empty content sequence it is the string form of the result.
C18_ResultNormalization ==
    ipc = "returned" /\ WellFormed(iin.outcome) =>
        /\ ~iout.failed
        /\ iout.msg.content =
              IF iin.outcome.content # <<>> /\ iin.outcome.content[1].hastext
              THEN iin.outcome.content[1].text
              ELSE Str(iin.outcome.repr)

\* C18 as amended: the text of the tool message is the text of the first
\* content item if it has one, otherwise the string form of that first item;
\* for an empty content sequence it is the string form of the result; the
\* items after the first have no part in it.
C18_FirstItemNormalization ==
    ipc = "returned" /\ WellFormed(iin.outcome) =>
        /\ ~iout.failed
        /\ iout.msg.content =
              IF iin.outcome.content = <<>> THEN Str(iin.outcome.repr)
              ELSE IF iin.outcome.content[1].hastext
              THEN iin.outcome.content[1].text
              ELSE Str(iin.outcome.content[1].repr)

C18_Witness ==
    /\ ipc = "returned"
    /\ Len(iin.outcome.content) = 2
    /\ ~iin.outcome.content[1].hastext
    /\ iin.outcome.content[2].hastext
    /\ iout.msg.content = Str(<<"ImageContent">>)

-----------------------------------------------------------------------------
(* extract_tool_calls alone: one call, for every message of ExtractInputs.  *)
(* An input is [kind, msg, obj]: the message, how it was built, and for a   *)
(* text built around one JSON object that object.                           *)

Absent == <<"absent">>

\* the pair (k, v) of a record unless the key is left out
Opt(k, v) == IF v = Absent THEN <<>> ELSE <<Pair(k, v)>>

ArgsB == Dict(<<Pair("b", <<"int", 2>>)>>)

\* a record of AIMessage.tool_calls: a dict, or an object with attributes
Record(form, n, a, q, i) ==
    <<form, Opt("name", n) \o Opt("args", a) \o Opt("parameters", q)
            \o Opt("id", i)>>

Records ==
    { Record(form, n, a, q, i) :
        form \in {"dict", "obj"},
        n \in {Absent, Str(<<"add">>)},
        a \in {Absent, EmptyDict, ArgsA, Str(<<"zz">>)},
        q \in {Absent, ArgsB},
        i \in {Absent, Str(<<"x">>)} }

ListRecords ==
    { Record("dict", Str(<<"add">>), a, q, i) :
        a \in {EmptyDict, ArgsA},
        q \in {Absent, ArgsB},
        i \in {Absent, Str(<<"x">>)} }

StructuredLists ==
    { <<r>> : r \in Records }
    \cup UNION { [1..n -> ListRecords] : n \in 2..MaxCalls }

StructuredInputs ==
    { [kind |-> "structured", msg |-> AIMessage(EmptyStr, tcs), obj |-> None] :
        tcs \in StructuredLists }

\* the JSON objects with name and args a model writes into a fenced block
FencedObjects ==
    { Dict(<<Pair("name", Str(<<"add">>)), Pair("args", a)>> \o Opt("id", i)) :
        a \in { EmptyDict, ArgsA, Dict(<<Pair("o", ArgsA)>>),
                Dict(<<Pair("t", Str(<<"{", "x", "}">>))>>),
                Dict(<<Pair("t", Str(<<"}", Fence>>))>>) },
        i \in {Absent, Str(<<"x">>)} }

\* texts that hold exactly one fenced block labelled json, which holds obj
OneFenced(obj) ==
    { before \o <<Fence, "json">> \o open \o Dumps(obj) \o close \o <<Fence>>
        \o after :
        before \in {<<>>, <<"see", " ">>},
        open \in {<<>>, <<"nl">>},
        close \in {<<>>, <<"nl">>},
        after \in {<<>>, <<"nl", "thanks">>} }

FencedInputs ==
    UNION { { [kind |-> "fenced1", msg |-> AIMessage(Str(text), <<>>),
               obj |-> obj] : text \in OneFenced(obj) } :
            obj \in FencedObjects }

\* a JSON object that makes a request when it is extracted
CallObj(n) == Dict(<<Pair("name", Str(<<n>>)), Pair("args", ArgsA)>>)

\* texts that hold no JSON
PlainTexts ==
    { <<"done">>,
      <<"the", " ", "name", " ", "args">>,
      <<Fence, "json", "nl", "oops", "nl", Fence>>,
      <<Fence, "nl", "oops", "nl", Fence>> }

\* texts that hold unparseable JSON in a fenced block labelled json
BadFencedTexts ==
    { Fenced(<<"{", "oops", "}">>),
      <<"see", " ">> \o Fenced(<<"{", Quote, "name", Quote, ":", "}">>),
      Fenced(<<"{", Quote, "name", Quote, ":", Deep, ",",
               Quote, "args", Quote, ":", "{", "}", "}">>),
      Fenced(<<"{", Quote, "name", Quote, ":", Quote, "add", "}">>) }

\* texts that as a whole are unparseable JSON
BadWholeTexts ==
    { <<"{", "oops">>,
      <<"{", "name", " ", "args">>,
      <<" ", "{", Quote, "name", Quote, ":", Quote, "add", Quote, ",",
        Quote, "args", Quote, ":", "}", "nl">>,
      <<"{", Quote, "name", Quote, ":", Quote, "add", Quote, ",",
        Quote, "args", Quote, ":", "{", "}", "}", "}">>,
      <<"{", Quote, "name", Quote, ":", Deep, ",",
        Quote, "args", Quote, ":", "{", "}">> }

\* messages that are no assistant message, or whose content is no string
NoTextMessages ==
    { HumanMessage(Str(Fenced(Dumps(CallObj("add"))))),
      HumanMessage(Str(Dumps(CallObj("add")))),
      ToolMessage(Str(Dumps(CallObj("add"))), Str(<<"x">>), Str(<<"add">>)),
      AIMessage(<<"list", <<Str(Fenced(Dumps(CallObj("add"))))>>>>, <<>>),
      AIMessage(<<"list", <<>>>>, <<>>),
      AIMessage(None, <<>>),
      AIMessage(EmptyStr, <<>>) }

NoCallInputs ==
    { [kind |-> "nojson", msg |-> AIMessage(Str(text), <<>>), obj |-> None] :
        text \in PlainTexts }
    \cup { [kind |-> "badjson", msg |-> AIMessage(Str(text), <<>>),
             obj |-> None] : text \in BadFencedTexts \cup BadWholeTexts }
    \cup { [kind |-> "notext", msg |-> m, obj |-> None] : m \in NoTextMessages }

\* a fenced block as [body, objs]: the text between the fences, and the
\* JSON objects it holds when it is parseable
Block(body, objs) == [body |-> body, objs |-> objs]

ObjBlock(n) == Block(Dumps(CallObj(n)), <<CallObj(n)>>)

\* blocks that fail to parse: not JSON, an object that is cut off before
\* its closing brace, and a member without a value
BadBlocks ==
    { Block(<<"{", "oops", "}">>, <<>>),
      Block(<<"{", Quote, "name", Quote, ":", Quote, "add", Quote>>, <<>>),
      Block(<<"{", Quote, "name", Quote, ":", "}">>, <<>>) }

\* blocks that hold a list of objects
ListBlocks ==
    { Block(Dumps(<<"list", <<CallObj("add"), CallObj("read_csv")>>>>),
            <<CallObj("add"), CallObj("read_csv")>>),
      Block(Dumps(<<"list", <<CallObj("read_csv")>>>>), <<CallObj("read_csv")>>) }

RECURSIVE BlocksText(_)
\* the text that holds the blocks one after the other, each fenced
BlocksText(blocks) ==
    IF blocks = <<>> THEN <<>>
    ELSE Fenced(blocks[1].body)
         \o (IF Len(blocks) > 1 THEN <<"nl">> ELSE <<>>)
         \o BlocksText(Tail(blocks))

RECURSIVE BlocksObjs(_)
\* the objects of the blocks, in the order of the text
BlocksObjs(blocks) ==
    IF blocks = <<>> THEN <<>>
    ELSE blocks[1].objs \o BlocksObjs(Tail(blocks))

\* an input whose text holds the blocks; obj lists the objects they hold
BlocksInput(kind, blocks) ==
    [kind |-> kind, msg |-> AIMessage(Str(BlocksText(blocks)), <<>>),
     obj |-> <<"list", BlocksObjs(blocks)>>]

\* texts with several fenced blocks, parseable or not
SeveralBlocksInputs ==
    { BlocksInput("blocks", blocks) :
        blocks \in UNION { [1..n -> {ObjBlock("add"), ObjBlock("read_csv")}
                                    \cup BadBlocks] : n \in 2..MaxBlocks } }

\* texts whose fenced blocks hold one object or a list of objects
FlatInputs ==
    { BlocksInput("flat", blocks) :
        blocks \in UNION { [1..n -> {ObjBlock("add")} \cup ListBlocks] :
                            n \in 1..2 } }

\* an object whose args hold a string with a fenced block in it
TextInString(body) ==
    Dict(<<Pair("name", Str(<<"add">>)),
           Pair("args", Dict(<<Pair("t", Str(<<Fence, "json">> \o body
                                               \o <<Fence>>))>>))>>)

\* a content as [text, f, w, nf]: the text, the objects of its parseable
\* fenced blocks, the object the whole text is, and the number of its
\* fenced blocks
Content(text, f, w, nf) == [text |-> text, f |-> f, w |-> w, nf |-> nf]

Contents ==
    { Content(<<>>, <<>>, <<>>, 0),
      Content(<<"done">>, <<>>, <<>>, 0),
      Content(Fenced(Dumps(CallObj("read_csv"))), <<CallObj("read_csv")>>,
              <<>>, 1),
      Content(Fenced(<<"{", "oops", "}">>), <<>>, <<>>, 1),
      Content(Dumps(CallObj("read_csv")), <<>>, <<CallObj("read_csv")>>, 0),
      Content(<<" ">> \o Dumps(CallObj("read_csv")) \o <<"nl">>, <<>>,
              <<CallObj("read_csv")>>, 0),
      Content(Dumps(TextInString(<<"{", "}">>)), <<EmptyDict>>,
              <<TextInString(<<"{", "}">>)>>, 1),
      Content(Dumps(TextInString(<<"{", "oops", "}">>)), <<>>,
              <<TextInString(<<"{", "oops", "}">>)>>, 1) }

\* native tool-call lists: none, one record, two records
NativeLists ==
    { <<>>,
      <<Record("dict", Str(<<"add">>), ArgsA, Absent, Str(<<"x">>))>>,
      <<Record("dict", Str(<<"add">>), ArgsA, Absent, Str(<<"x">>)),
        Record("dict", Str(<<"add">>), ArgsB, Absent, Absent)>> }

\* messages that offer several paths at once
PriorityInputs ==
    { [kind |-> "priority", msg |-> AIMessage(Str(c.text), tcs),
       obj |-> <<"parts", c.f, c.w, c.nf>>] :
        c \in Contents, tcs \in NativeLists }

ExtractInputs ==
    StructuredInputs \cup FencedInputs \cup NoCallInputs
    \cup SeveralBlocksInputs \cup FlatInputs \cup PriorityInputs

ExtractInit ==
    /\ ein \in ExtractInputs
    /\ eout = None
    /\ epc = "call"
    /\ LoopIdle
    /\ InvokeIdle
    /\ ServerIdle

Extract ==
    /\ epc = "call"
    /\ eout' = ExtractOutcome(ein.msg)
    /\ epc' = "returned"
    /\ UNCHANGED <<ein, loopvars, invokevars, servervars>>

SpecExtract == ExtractInit /\ [][Extract]_vars

HasKey(d, k) == \E i \in 1..Len(d[2]) : d[2][i][1] = <<k>>

\* a mapping as it is, anything else as the empty mapping
Coerced(v) == IF v[1] = "dict" THEN v ELSE EmptyDict

\* what C9 says of one record tc and the request r made from it
AsClaimed(tc, r) ==
    /\ r.name = Get(tc, "name", EmptyStr)
    /\ r.id = Get(tc, "id", EmptyStr)
    /\ r.args = IF HasKey(tc, "args") THEN Coerced(Get(tc, "args", None))
                ELSE Coerced(Get(tc, "parameters", EmptyDict))

\* C9: for a message with a non-empty native tool-call list (of ToolCall
\* dicts), extract_tool_calls returns one request per record, in the order
\* of the list; a record with both args and parameters gives the value under
\* args, whatever that value is; a missing name or id gives the empty
\* string; an argument value that is no mapping gives the empty mapping.
C9_StructuredExtraction ==
    (/\ epc = "returned"
     /\ ein.kind = "structured"
     /\ \A i \in 1..Len(ein.msg.tool_calls) : ein.msg.tool_calls[i][1] = "dict")
    => /\ ~eout.raised
       /\ Len(eout.calls) = Len(ein.msg.tool_calls)
       /\ \A i \in 1..Len(ein.msg.tool_calls) :
             AsClaimed(ein.msg.tool_calls[i], eout.calls[i])

\* C10: for a message without native tool calls whose text holds exactly one
\* fenced block labelled json, holding one object with name and args,
\* extract_tool_calls returns exactly one request, with the name and the
\* args of that object.
C10_OneFencedObject ==
    epc = "returned" /\ ein.kind = "fenced1" =>
        /\ ~eout.raised
        /\ Len(eout.calls) = 1
        /\ eout.calls[1].name = Get(ein.obj, "name", None)
        /\ eout.calls[1].args = Get(ein.obj, "args", None)

\* C11: for a message without native tool calls whose text holds no JSON or
\* only unparseable JSON (in fenced blocks or as the whole text), and for a
\* message that is no assistant message or whose content is no string, no
\* exception leaves extract_tool_calls and it returns the empty list.
C11_ExtractionNeverFaults ==
    epc = "returned" /\ ein.kind \in {"nojson", "badjson", "notext"} =>
        /\ ~eout.raised
        /\ eout.calls = <<>>

\* what does hold: the empty list is returned, unless the whole text is read
\* by json.loads and nests deeper than the recursion limit
C11_FaultsOnlyOnDeepText ==
    epc = "returned" /\ ein.kind \in {"nojson", "badjson", "notext"} =>
        /\ eout.calls = <<>>
        /\ eout.raised =>
              /\ ein.msg.content[2] \in BadWholeTexts
              /\ Contains(ein.msg.content[2], Deep)

\* the requests of the JSON objects objs, one per object and in their order
Requests(objs) ==
    [i \in 1..Len(objs) |->
        ToolCall(Get(objs[i], "name", EmptyStr),
                 Get(objs[i], "args", EmptyDict),
                 Get(objs[i], "id", EmptyStr))]

\* C15: for a text with several fenced blocks labelled json, a block that
\* fails to parse gives no request and leaves the other blocks alone: the
\* result is the requests of the parseable blocks, in the order of the text.
C15_BlockIsolation ==
    epc = "returned" /\ ein.kind = "blocks" =>
        /\ ~eout.raised
        /\ eout.calls = Requests(ein.obj[2])

\* C16: a fenced block labelled json holds one object or a list of
\* objects; the result is the requests of all objects of all blocks, in the
\* order of the text.
C16_Flattening ==
    epc = "returned" /\ ein.kind = "flat" =>
        /\ ~eout.raised
        /\ eout.calls = Requests(ein.obj[2])

\* C17: a non-empty native tool-call list gives the requests of that list
\* only, and the text is not scanned; the text is scanned exactly when the
\* native list is empty and the text is not; json.loads of the whole text
\* runs only when the scan found no fenced block; so the result comes from
\* one path: the native list, else the fenced blocks, else the whole text.
C17_PathPriority ==
    epc = "returned" /\ ein.kind = "priority" =>
        LET tcs == ein.msg.tool_calls
            f == ein.obj[2]
            w == ein.obj[3]
            nf == ein.obj[4]
        IN /\ ~eout.raised
           /\ (tcs # <<>> =>
                 /\ eout.path = "structured"
                 /\ eout.calls = Requests(tcs))
           /\ (eout.path = "text" <=> tcs = <<>> /\ ein.msg.content # EmptyStr)
           /\ (eout.sub = "fenced" <=> eout.path = "text" /\ nf > 0)
           /\ (eout.sub = "whole" => nf = 0)
           /\ (tcs = <<>> => eout.calls = Requests(IF nf > 0 THEN f ELSE w))

C17_Witness ==
    /\ epc = "returned"
    /\ ein.kind = "priority"
    /\ Len(ein.msg.tool_calls) = 2
    /\ ein.obj[2] # <<>>
    /\ eout.path = "structured"
    /\ eout.calls = Requests(ein.msg.tool_calls)

-----------------------------------------------------------------------------
(* server.py alone: a sequence of at most MaxServerCalls calls of its tools *)
(* add, read_csv and describe_data, one after the other.                    *)

\* the paths read_csv is called with: two CSV files, an unreadable file and
\* a path that does not exist
Paths == {<<"data.csv">>, <<"other.csv">>, <<"bad.csv">>, <<"missing.csv">>}

ServerInit ==
    /\ loaded_data = None
    /\ slog = <<>>
    /\ spc = "serving"
    /\ LoopIdle
    /\ ExtractIdle
    /\ InvokeIdle

\* the server serves one call: the tool runs, and its text is returned
Serve(tool, path, r) ==
    /\ spc = "serving"
    /\ Len(slog) < MaxServerCalls
    /\ loaded_data' = r.loaded
    /\ slog' = Append(slog, [tool |-> tool, path |-> path, text |-> r.text,
                             before |-> loaded_data, after |-> r.loaded])
    /\ UNCHANGED <<spc, loopvars, extractvars, invokevars>>

ServeAdd == Serve("add", <<>>, add(1, 2, loaded_data))

ServeReadCsv(path) == Serve("read_csv", path, read_csv(Str(path), loaded_data))

ServeDescribeData == Serve("describe_data", <<>>, describe_data(loaded_data))

ServerNext ==
    \/ ServeAdd
    \/ \E path \in Paths : ServeReadCsv(path)
    \/ ServeDescribeData

SpecServer == ServerInit /\ [][ServerNext]_vars

\* the call slog[k] is a read_csv that succeeded: its file exists and
\* pd.read_csv read it
Succeeded(k) ==
    /\ slog[k].tool = "read_csv"
    /\ slog[k].path \in {<<"data.csv">>, <<"other.csv">>}

\* the calls before the k-th that are a read_csv that succeeded
SucceededBefore(k) == {j \in 1..(k - 1) : Succeeded(j)}

\* the largest element of a non-empty set of numbers
Max(S) == CHOOSE m \in S : \A j \in S : j <= m

\* C21: every add, every describe_data and every read_csv that fails (the
\* path does not exist, or reading raises) leaves _loaded_data as it was,
\* and a read_csv that succeeds makes it the data of its file; describe_data
\* returns the no-data error exactly when no read_csv has succeeded before
\* it, and otherwise the description of the data of the latest read_csv
\* that succeeded.
C21_LoadedDataFrame ==
    \A k \in 1..Len(slog) :
        /\ (~Succeeded(k) => slog[k].after = slog[k].before)
        /\ (Succeeded(k) =>
              /\ slog[k].after = <<"df", slog[k].path>>
              /\ slog[k].text[1] = "str"
              /\ IsInfix(slog[k].path, slog[k].text[2])
              /\ ~IsInfix(<<"error: failed to read: ">>, slog[k].text[2]))
        /\ slog[k].before = (IF k = 1 THEN None ELSE slog[k - 1].after)
        /\ (k = Len(slog) => loaded_data = slog[k].after)
        /\ (slog[k].tool = "describe_data" =>
              /\ (slog[k].text = NoDataMsg <=> SucceededBefore(k) = {})
              /\ (SucceededBefore(k) # {} =>
                    slog[k].text
                      = Description(<<"df", slog[Max(SucceededBefore(k))].path>>)))

C21_Witness ==
    /\ Len(slog) = 3
    /\ slog[1].tool = "read_csv"
    /\ slog[1].path = <<"data.csv">>
    /\ slog[2].tool = "read_csv"
    /\ slog[2].path = <<"bad.csv">>
    /\ slog[3].tool = "describe_data"
    /\ slog[3].text = Description(<<"df", <<"data.csv">>>>)
    /\ loaded_data = <<"df", <<"data.csv">>>>

=============================================================================
